---- MODULE Spec2Model ----
(***************************************************************************)
(* Model of thereis/shroom:                                                *)
(*   - BaseAvatar   (src/unnamed/part_000): look resolution, frame cycle,  *)
(*                  sprite graph rebuild;                                  *)
(*   - RoomObject   (src/src/objects/RoomObject.ts): setParent / destroy;  *)
(*   - Room         (src/src/objects/room/Room.ts): style setters, full    *)
(*                  rebuild and in-place propagation.                      *)
(* Three specifications share the module: SpecAvatar, SpecObject, SpecRoom.*)
(***************************************************************************)
EXTENDS Integers, Sequences, FiniteSets, TLC

VARIABLES
  avatar,     \* the fields of one BaseAvatar, with its promises in flight
  avatarOp,   \* the last operation performed on the avatar, with its input,
              \* and what the host has assigned so far (history)
  obj,        \* the fields of one RoomObject, with its hook invocation counts
  objOp,      \* the last operation performed on a RoomObject, with its outcome;
              \* repeated: the operation before it was destroy() on the same object
  room,       \* the fields of one Room, with the objects it created
  roomOp      \* the last operation performed on the Room, with its call trace

vars == <<avatar, avatarOp, obj, objOp, room, roomOp>>

(***************************************************************************)
(* Bounds of the model.                                                    *)
(***************************************************************************)
MaxRequests == 2   \* resolution requests one avatar issues
MaxFrame == 1      \* largest frame index assigned to currentFrame
MaxHookCalls == 2  \* registered() invocations of one RoomObject
MaxReentry == 2    \* nesting depth of destroy() re-entered by the container
MaxRoomOps == 3    \* operations performed on a Room after construction
MaxStyledOps == 1  \* style operations on a Room whose positions are queried
MaxLookCalls == 2  \* calls of the lookOptions setter on an avatar that settles

(***************************************************************************)
(* Optional values (T | undefined) are sequences of length at most one.    *)
(***************************************************************************)
None == <<>>
Some(x) == <<x>>
IsSome(o) == o # <<>>
Get(o) == o[1]

Range(s) == {s[i] : i \in 1..Len(s)}

\* array[i] of JavaScript for an integer i: undefined outside 0..length-1
At(array, i) == IF i >= 0 /\ i < Len(array) THEN Some(array[i + 1]) ELSE None

\* a % n of JavaScript for integers, n > 0: the remainder has the sign of a
Remainder(a, n) == IF a >= 0 THEN a % n ELSE -((-a) % n)

(***************************************************************************)
(*                              BaseAvatar                                 *)
(***************************************************************************)

\* LookOptions values the host assigns. actions is a JavaScript Set: its
\* elements in insertion order, without duplicates.
MkLook(look, actions, item, effect, direction) ==
  [look |-> look, actions |-> actions, item |-> item, effect |-> effect,
   direction |-> direction]

LookPlain == MkLook("hd-180-1", <<>>, None, None, 2)
LookMoveWave == MkLook("hd-180-1", <<"Move", "Wave">>, None, None, 2)
LookWaveMove == MkLook("hd-180-1", <<"Wave", "Move">>, None, None, 2)
LookOtherId == MkLook("hd-180-2", <<>>, None, None, 2)
LookOtherDirection == MkLook("hd-180-1", <<>>, None, None, 4)
LookOtherItem == MkLook("hd-180-1", <<>>, Some(1), None, 2)

Looks ==
  {LookPlain, LookMoveWave, LookWaveMove, LookOtherId, LookOtherDirection,
   LookOtherItem}

\* isSetEqual(a, b) of util/isSetEqual: same members, order irrelevant
isSetEqual(a, b) == Range(a) = Range(b)

(***************************************************************************)
(* The avatar loader (IAvatarLoader), an external collaborator: the result *)
(* of a request, its draw definition for a look and its textures.          *)
(***************************************************************************)
HexDigits ==
  [c \in {"0", "1", "2", "3", "4", "5", "6", "7", "8", "9",
          "a", "b", "c", "d", "e", "f"} |->
     CASE c = "0" -> 0 [] c = "1" -> 1 [] c = "2" -> 2 [] c = "3" -> 3
       [] c = "4" -> 4 [] c = "5" -> 5 [] c = "6" -> 6 [] c = "7" -> 7
       [] c = "8" -> 8 [] c = "9" -> 9 [] c = "a" -> 10 [] c = "b" -> 11
       [] c = "c" -> 12 [] c = "d" -> 13 [] c = "e" -> 14 [] c = "f" -> 15]

RECURSIVE ParseHex(_, _)
\* parseInt(s, 16) on a string of hexadecimal digits, given as its characters
ParseHex(chars, acc) ==
  IF chars = <<>> THEN acc
  ELSE ParseHex(Tail(chars), acc * 16 + HexDigits[Head(chars)])

\* part.color.slice(1): the characters after the leading "#"
ColorSkin == <<"#", "f", "f", "c", "c", "9", "9">>
ColorTan == <<"#", "c", "c", "6", "6", "0", "0">>

MkAsset(fileId, x, y, mirror) ==
  [fileId |-> fileId, x |-> x, y |-> y, mirror |-> mirror]

MkPart(assetList, color, mode) ==
  [assets |-> assetList, color |-> color, mode |-> mode]

\* AvatarLoaderResult.getDrawDefinition(lookOptions): the parts of a look.
\* Both figures share the head image hd_0, in different colours; direction 4
\* shows the images of direction 2 mirrored.
GetDrawDefinition(result, look) ==
  LET m == (look.direction = 4)
  IN IF look.look = "hd-180-1"
     THEN [offsetX |-> 0, offsetY |-> 0,
           parts |->
             << MkPart(<<MkAsset("hd_0", 0, 0, m), MkAsset("hd_1", 0, 0, m)>>,
                       Some(ColorSkin), "colored"),
                MkPart(<<MkAsset("ch_0", 0, 2, m)>>, Some(ColorTan), "plain") >>]
     ELSE [offsetX |-> 1, offsetY |-> 1,
           parts |->
             << MkPart(<<MkAsset("hd_0", 0, 0, m)>>, Some(ColorTan), "colored"),
                MkPart(<<MkAsset("ea_0", 2, 0, m)>>, None, "colored") >>]

\* AvatarLoaderResult.getTexture(fileId): absent for an asset that has no image
GetTexture(result, fileId) ==
  IF fileId = "ea_0" THEN None ELSE Some(fileId)

\* what avatarLoader.getAvatarDrawDefinition({...lookOptions, initial: true})
\* resolves to
LoaderResult(look) == [look |-> look]

(***************************************************************************)
(* State of a BaseAvatar after its constructor ran with options.look.      *)
(***************************************************************************)
NewAvatar(look) ==
  [ container |-> None,            \* _container: children and destroyed flag
    avatarLoaderResult |-> None,
    avatarDrawDefinition |-> None,
    lookOptions |-> None,
    nextLookOptions |-> Some(look),
    currentFrame |-> 0,
    assets |-> <<>>,               \* _assets: file ids in creation order
    refreshFrame |-> FALSE,
    refreshLook |-> FALSE,
    sprites |-> <<>>,              \* _sprites: HitSprite per _assets entry
    updateId |-> 0,
    mounted |-> FALSE,             \* _dependencies != null
    thrown |-> FALSE,              \* the last sprite rebuild ended in a TypeError
    inflight |-> {} ]              \* promises of _reloadLook not yet settled

\* this._sprites.get(fileId): index into assets / sprites, 0 when absent
SpriteIndex(a, fileId) ==
  IF \E i \in 1..Len(a.assets) : a.assets[i] = fileId
  THEN CHOOSE i \in 1..Len(a.assets) : a.assets[i] = fileId
  ELSE 0

\* createAsset(part, asset): a new HitSprite, or absent without a texture
createAsset(a, part, asset) ==
  IF GetTexture(Get(a.avatarLoaderResult), asset.fileId) = None THEN None
  ELSE Some([ x |-> asset.x, y |-> asset.y, mirrored |-> asset.mirror,
              visible |-> TRUE, ignore |-> FALSE,
              tint |-> IF IsSome(part.color) /\ part.mode = "colored"
                       THEN ParseHex(Tail(Get(part.color)), 0)
                       ELSE 16777215 ])

\* part.assets[currentFrame % part.assets.length]: undefined when the
\* remainder is negative
FrameAsset(part, currentFrame) ==
  At(part.assets, Remainder(currentFrame, Len(part.assets)))

\* PIXI.Container.addChild: a child already present moves to the end
AddChild(children, c) ==
  Append(SelectSeq(children, LAMBDA d : d # c), c)

\* the body of drawDefinition.parts.forEach in
\* _updateSpritesWithAvatarDrawDefinition, for one part
UpdatePart(a, part) ==
  LET selected == FrameAsset(part, a.currentFrame)
      asset == Get(selected)
      found == SpriteIndex(a, asset.fileId)
      created == IF found = 0 THEN createAsset(a, part, asset) ELSE None
      a1 == IF found = 0 /\ IsSome(created)
            THEN [a EXCEPT !.assets = Append(@, asset.fileId),
                           !.sprites = Append(@, Get(created))]
            ELSE a
      i == SpriteIndex(a1, asset.fileId)
  IN IF selected = None THEN [a EXCEPT !.thrown = TRUE]  \* asset.fileId throws
     ELSE IF i = 0 THEN a1
     ELSE [a1 EXCEPT
             !.sprites[i] = [@ EXCEPT !.x = asset.x, !.y = asset.y,
                                      !.visible = TRUE,
                                      !.mirrored = asset.mirror,
                                      !.ignore = FALSE],
             !.container = Some([Get(@) EXCEPT
                                   !.children = AddChild(@, asset.fileId)])]

RECURSIVE UpdateParts(_, _)
\* drawDefinition.parts.forEach, part after part
UpdateParts(a, parts) ==
  IF parts = <<>> \/ a.thrown THEN a
  ELSE UpdateParts(UpdatePart(a, Head(parts)), Tail(parts))

\* _updateSpritesWithAvatarDrawDefinition leaving the cached sprites as shown
updateSpritesWithoutHiding(a, drawDefinition) ==
  IF ~a.mounted THEN a
  ELSE UpdateParts([a EXCEPT !.container = Some([children |-> <<>>,
                                                 destroyed |-> FALSE]),
                             !.thrown = FALSE],
                   drawDefinition.parts)

\* _updateSpritesWithAvatarDrawDefinition(drawDefinition, this.currentFrame)
updateSpritesWithAvatarDrawDefinition(a, drawDefinition) ==
  IF ~a.mounted THEN a
  ELSE LET hidden ==
             [a EXCEPT
                !.sprites = [i \in 1..Len(a.sprites) |->
                               [a.sprites[i] EXCEPT !.visible = FALSE,
                                                    !.ignore = TRUE]],
                !.container = Some([children |-> <<>>, destroyed |-> FALSE]),
                !.thrown = FALSE]
       IN UpdateParts(hidden, drawDefinition.parts)

\* _updateSprites()
updateSprites(a) ==
  IF a.avatarLoaderResult = None \/ a.lookOptions = None THEN a
  ELSE LET definition ==
             GetDrawDefinition(Get(a.avatarLoaderResult), Get(a.lookOptions))
       IN updateSpritesWithAvatarDrawDefinition(
            [a EXCEPT !.avatarDrawDefinition = Some(definition)], definition)

\* _updateFrame()
updateFrame(a) ==
  IF a.avatarDrawDefinition = None THEN a
  ELSE updateSpritesWithAvatarDrawDefinition(a, Get(a.avatarDrawDefinition))

\* _updateLookOptions comparing the action sets by their order
updateLookOptionsOrdered(a, oldLookOptions, newLookOptions) ==
  IF \/ oldLookOptions = None
     \/ Get(oldLookOptions).actions # newLookOptions.actions
     \/ Get(oldLookOptions).look # newLookOptions.look
     \/ Get(oldLookOptions).item # newLookOptions.item
     \/ Get(oldLookOptions).effect # newLookOptions.effect
     \/ Get(oldLookOptions).direction # newLookOptions.direction
  THEN [a EXCEPT !.nextLookOptions = Some(newLookOptions),
                 !.refreshLook = TRUE]
  ELSE a

\* _updateLookOptions(oldLookOptions, newLookOptions)
updateLookOptions(a, oldLookOptions, newLookOptions) ==
  IF \/ oldLookOptions = None
     \/ ~isSetEqual(Get(oldLookOptions).actions, newLookOptions.actions)
     \/ Get(oldLookOptions).look # newLookOptions.look
     \/ Get(oldLookOptions).item # newLookOptions.item
     \/ Get(oldLookOptions).effect # newLookOptions.effect
     \/ Get(oldLookOptions).direction # newLookOptions.direction
  THEN [a EXCEPT !.nextLookOptions = Some(newLookOptions),
                 !.refreshLook = TRUE]
  ELSE a

\* _reloadLook() taking the current id without incrementing it
reloadLookReusingId(a) ==
  IF ~a.mounted THEN a
  ELSE IF a.nextLookOptions = None THEN a
  ELSE [a EXCEPT !.inflight = @ \cup {[requestId |-> a.updateId,
                                       lookOptions |-> Get(a.nextLookOptions)]}]

\* _reloadLook(), up to the call of the loader: the promise joins inflight
reloadLook(a) ==
  IF ~a.mounted THEN a
  ELSE IF a.nextLookOptions = None THEN a
  ELSE LET requestId == a.updateId + 1
       IN [a EXCEPT !.updateId = requestId,
                    !.inflight = @ \cup {[requestId |-> requestId,
                                          lookOptions |-> Get(a.nextLookOptions)]}]

\* the .then callback without the comparison of request ids
reloadLookThenUnchecked(a, request, result) ==
  updateSprites([a EXCEPT !.avatarLoaderResult = Some(result),
                          !.lookOptions = Some(request.lookOptions),
                          !.nextLookOptions = None])

\* the .then callback of _reloadLook, run with the loader's result
reloadLookThen(a, request, result) ==
  IF request.requestId # a.updateId THEN a
  ELSE updateSprites([a EXCEPT !.avatarLoaderResult = Some(result),
                               !.lookOptions = Some(request.lookOptions),
                               !.nextLookOptions = None])

\* a rejection that drops what the last resolution stored
reloadLookRejectedResets(a, request) ==
  [a EXCEPT !.avatarLoaderResult = None, !.avatarDrawDefinition = None,
            !.lookOptions = None]

\* the promise of _reloadLook rejects: .then has no rejection handler and
\* there is no .catch, so nothing of the avatar runs
reloadLookRejected(a, request) == a

\* the callback _handleDependenciesSet subscribes to the animation ticker
tickerCallback(a) ==
  LET a1 == IF a.refreshLook
            THEN reloadLook([a EXCEPT !.refreshLook = FALSE])
            ELSE a
  IN IF a1.refreshFrame
     THEN updateFrame([a1 EXCEPT !.refreshFrame = FALSE])
     ELSE a1

\* get lookOptions(): the pending look when there is one, else the applied one
lookOptionsGetter(a) ==
  IF IsSome(a.nextLookOptions) THEN a.nextLookOptions ELSE a.lookOptions

(***************************************************************************)
(* Operations on the avatar.                                               *)
(***************************************************************************)
OtherUnchangedA == UNCHANGED <<obj, objOp, room, roomOp>>

\* the look the constructor is given
ConstructionLook == LookPlain

\* equal-for-rendering: every field equal, action sets equal as sets
LookEqual(a, b) ==
  /\ a.look = b.look /\ a.item = b.item /\ a.effect = b.effect
  /\ a.direction = b.direction /\ Range(a.actions) = Range(b.actions)

\* the looks the avatar holds: the applied one and the pending one
HeldLooks(a) == Range(a.lookOptions) \cup Range(a.nextLookOptions)

\* The record of an operation. awaited: the look most recently assigned to a
\* mounted avatar that differs from every look it held, until the next tick.
\* identical: every look assigned so far is the construction look.
AvatarOp(op, look, id) ==
  [op |-> op, look |-> look, id |-> id,
   awaited |-> IF op = "tick" THEN None
               ELSE IF /\ op = "lookOptions" /\ avatar.mounted
                       /\ \A h \in HeldLooks(avatar) : ~LookEqual(h, Get(look))
                    THEN look
                    ELSE avatarOp.awaited,
   identical |-> /\ avatarOp.identical
                 /\ (op = "lookOptions" => Get(look) = ConstructionLook)]

\* set dependencies(value): mounts the avatar, _handleDependenciesSet
SetDependencies ==
  /\ ~avatar.mounted
  /\ avatar' = reloadLook([avatar EXCEPT !.mounted = TRUE])
  /\ avatarOp' = AvatarOp("dependencies", None, 0)
  /\ OtherUnchangedA

\* set lookOptions(lookOptions)
SetLookOptions ==
  \E l \in Looks :
    /\ avatar' = updateLookOptions(avatar, avatar.lookOptions, l)
    /\ avatarOp' = AvatarOp("lookOptions", Some(l), 0)
    /\ OtherUnchangedA

\* set currentFrame(value) without the comparison with the current value
currentFrameSetterAlwaysDirty(a, value) ==
  [a EXCEPT !.currentFrame = value, !.refreshFrame = TRUE]

\* set currentFrame(value)
currentFrameSetter(a, value) ==
  IF value = a.currentFrame THEN a
  ELSE [a EXCEPT !.currentFrame = value, !.refreshFrame = TRUE]

\* the host assigns a frame index of the running animation
SetCurrentFrame ==
  \E value \in 0..MaxFrame :
    /\ avatar' = currentFrameSetter(avatar, value)
    /\ avatarOp' = AvatarOp("currentFrame", None, 0)
    /\ OtherUnchangedA

\* the numbers the host may assign to currentFrame: the setter takes any
FrameIndices == (0 - MaxFrame)..(MaxFrame + 2)

\* the host assigns any frame index
SetFrameIndex ==
  \E value \in FrameIndices :
    /\ avatar' = currentFrameSetter(avatar, value)
    /\ avatarOp' = AvatarOp("currentFrame", None, 0)
    /\ OtherUnchangedA

\* one tick of the animation ticker the avatar subscribed to
Tick ==
  /\ avatar.mounted
  /\ (avatar.refreshLook /\ IsSome(avatar.nextLookOptions))
       => avatar.updateId < MaxRequests
  /\ avatar' = tickerCallback(avatar)
  /\ avatarOp' = AvatarOp("tick", None, 0)
  /\ OtherUnchangedA

\* the loader's promise of one request fulfils
Resolve ==
  \E request \in avatar.inflight :
    /\ avatar' = reloadLookThen([avatar EXCEPT !.inflight = @ \ {request}],
                                request, LoaderResult(request.lookOptions))
    /\ avatarOp' = AvatarOp("resolve", None, request.requestId)
    /\ OtherUnchangedA

\* the loader's promise of one request rejects: no callback is registered
Reject ==
  \E request \in avatar.inflight :
    /\ avatar' = reloadLookRejected([avatar EXCEPT !.inflight = @ \ {request}],
                                    request)
    /\ avatarOp' = AvatarOp("reject", None, request.requestId)
    /\ OtherUnchangedA

\* destroy(): this._container?.destroy()
destroyAvatar(a) ==
  IF a.container = None THEN a
  ELSE [a EXCEPT !.container = Some([children |-> <<>>, destroyed |-> TRUE])]

DestroyAvatar ==
  /\ avatar' = destroyAvatar(avatar)
  /\ avatarOp' = AvatarOp("destroy", None, 0)
  /\ OtherUnchangedA

(***************************************************************************)
(*                               RoomObject                                *)
(***************************************************************************)
Objects == {"o1", "o2"}
Contexts == {"roomA", "roomB"}

\* a RoomObject after construction; the three counters record how often
\* registered(), destroyed() and the container's removeRoomObject(this) ran
NewObject ==
  [context |-> None, isDestroyed |-> FALSE,
   registeredCalls |-> 0, destroyedCalls |-> 0, removeCalls |-> 0]

NoError == ""

\* setParent without the check for an existing context
setParentUnchecked(o, ctx) ==
  [o |-> [o EXCEPT !.isDestroyed = FALSE,
                   !.context = Some(ctx),
                   !.registeredCalls = @ + 1],
   error |-> NoError]

\* setParent(room)
setParent(o, ctx) ==
  IF o.context # None
  THEN [o |-> o, error |-> "RoomObject already provided with a context."]
  ELSE [o |-> [o EXCEPT !.isDestroyed = FALSE,
                        !.context = Some(ctx),
                        !.registeredCalls = @ + 1],
        error |-> NoError]

RECURSIVE destroy(_, _, _)
\* roomObjectContainer.removeRoomObject(this): the container's removal, which
\* may call destroy() on the object it removes (reenter), to a bounded depth
removeRoomObject(o, reenter, depth) ==
  LET removed == [o EXCEPT !.removeCalls = @ + 1]
  IN IF reenter /\ depth > 0
     THEN destroy(removed, reenter, depth - 1).o
     ELSE removed

\* destroy() without the early return on _isDestroyed
destroyUnguarded(o, reenter, depth) ==
  LET flagged == [o EXCEPT !.isDestroyed = TRUE]
  IN IF flagged.context = None
     THEN [o |-> flagged, error |-> "Invalid context"]
     ELSE [o |-> [removeRoomObject(flagged, reenter, depth)
                    EXCEPT !.context = None,
                           !.destroyedCalls = @ + 1],
           error |-> NoError]

\* destroy()
destroy(o, reenter, depth) ==
  IF o.isDestroyed THEN [o |-> o, error |-> NoError]
  ELSE LET flagged == [o EXCEPT !.isDestroyed = TRUE]
       IN IF flagged.context = None
          THEN [o |-> flagged, error |-> "Invalid context"]
          ELSE [o |-> [removeRoomObject(flagged, reenter, depth)
                         EXCEPT !.context = None,
                                !.destroyedCalls = @ + 1],
                error |-> NoError]

OtherUnchangedO == UNCHANGED <<avatar, avatarOp, room, roomOp>>

\* object.setParent(context), called by a container or by the host
SetParent ==
  \E id \in Objects, ctx \in Contexts :
    LET r == setParent(obj[id], ctx)
    IN /\ r.error = NoError => obj[id].registeredCalls < MaxHookCalls
       /\ obj' = [obj EXCEPT ![id] = r.o]
       /\ objOp' = [op |-> "setParent", id |-> id, ctx |-> ctx,
                    error |-> r.error, reenter |-> FALSE, repeated |-> FALSE]
       /\ OtherUnchangedO

\* object.destroy(), with a container that does or does not re-enter destroy()
Destroy ==
  \E id \in Objects, reenter \in BOOLEAN :
    LET r == destroy(obj[id], reenter, MaxReentry)
    IN /\ obj' = [obj EXCEPT ![id] = r.o]
       /\ objOp' = [op |-> "destroy", id |-> id, ctx |-> "",
                    error |-> r.error, reenter |-> reenter,
                    repeated |-> (objOp.op = "destroy" /\ objOp.id = id)]
       /\ OtherUnchangedO

(***************************************************************************)
(*                                  Room                                   *)
(***************************************************************************)

\* ParsedTileType values (util/parseTileMap)
Hidden == [type |-> "hidden", kind |-> "", z |-> 0, height |-> 0, hideBorder |-> FALSE]
FloorTile(z) == [type |-> "tile", kind |-> "", z |-> z, height |-> 0, hideBorder |-> FALSE]
DoorTile(z) == [type |-> "door", kind |-> "", z |-> z, height |-> 0, hideBorder |-> FALSE]
StairsTile(z, kind) == [type |-> "stairs", kind |-> kind, z |-> z, height |-> 0, hideBorder |-> FALSE]
WallTile(kind, height, hideBorder) ==
  [type |-> "wall", kind |-> kind, z |-> 0, height |-> height, hideBorder |-> hideBorder]

\* What parseTileMap and getTileMapBounds return for three tile maps: a 3x3
\* floor without wall cells, a walled room with a door, stairs and an inner
\* corner, and a room of walls and stairs only.
ParsedFloor3x3 ==
  [ tilemap |-> << <<FloorTile(0), FloorTile(0), FloorTile(0)>>,
                   <<FloorTile(0), FloorTile(0), FloorTile(0)>>,
                   <<FloorTile(0), FloorTile(0), FloorTile(0)>> >>,
    largestDiff |-> 0,
    wallOffsets |-> [x |-> 1, y |-> 1],
    positionOffsets |-> [x |-> 1, y |-> 1],
    maskOffsets |-> [x |-> 0, y |-> 0],
    bounds |-> [minX |-> -96, minY |-> 0, maxX |-> 96, maxY |-> 96] ]

ParsedWalled ==
  [ tilemap |-> << <<Hidden, WallTile("outerCorner", 0, FALSE),
                     WallTile("rowWall", 0, FALSE), WallTile("rowWall", 1, TRUE)>>,
                   <<Hidden, WallTile("colWall", 0, FALSE),
                     FloorTile(0), StairsTile(0, 0)>>,
                   <<DoorTile(0), WallTile("innerCorner", 0, FALSE),
                     FloorTile(0), FloorTile(1)>> >>,
    largestDiff |-> 1,
    wallOffsets |-> [x |-> 2, y |-> 1],
    positionOffsets |-> [x |-> 2, y |-> 1],
    maskOffsets |-> [x |-> 1, y |-> 0],
    bounds |-> [minX |-> -64, minY |-> -16, maxX |-> 96, maxY |-> 80] ]

ParsedStairs ==
  [ tilemap |-> << <<WallTile("outerCorner", 2, FALSE), WallTile("rowWall", 2, FALSE)>>,
                   <<WallTile("colWall", 2, TRUE), StairsTile(2, 2)>> >>,
    largestDiff |-> 0,
    wallOffsets |-> [x |-> 1, y |-> 1],
    positionOffsets |-> [x |-> 0, y |-> 1],
    maskOffsets |-> [x |-> 0, y |-> 0],
    bounds |-> [minX |-> -32, minY |-> -80, maxX |-> 32, maxY |-> -32] ]

ParsedTileMaps == {ParsedFloor3x3, ParsedWalled, ParsedStairs}

\* values the host assigns to the style setters
WallHeights == {100, 150}
TileHeights == {4}
WallDepths == {12}
WallColors == {Some("#cc3333")}
FloorColors == {Some("#33cc33")}
WallTextures == {"wallTexA", "wallTexB"}
FloorTextures == {"floorTexA"}

\* the room context addRoomObject hands to setParent
RoomContext == "roomA"

\* one entry of the call trace of an operation
Call(ev, id, prop) == [ev |-> ev, id |-> id, prop |-> prop]

\* the constructor's state before its call of updateTiles()
NewRoom(parsed) ==
  [ roomObjects |-> <<>>,
    wallOffsets |-> parsed.wallOffsets,
    positionOffsets |-> parsed.positionOffsets,
    maskOffsets |-> parsed.maskOffsets,
    parsedTileMap |-> parsed.tilemap,
    tileColor |-> "#989865",
    walls |-> <<>>,
    floor |-> <<>>,
    cursors |-> <<>>,
    doorWall |-> None,
    tileMapBounds |-> parsed.bounds,
    wallTexture |-> None,
    floorTexture |-> None,
    wallColor |-> None,
    floorColor |-> None,
    currentWallTexture |-> None,
    currentFloorTexture |-> None,
    hideWalls |-> FALSE,
    hideFloor |-> FALSE,
    wallDepth |-> 8,
    wallHeight |-> 115,
    tileHeight |-> 8,
    largestDiff |-> parsed.largestDiff,
    objects |-> <<>>,    \* every Wall, Tile, Stair and TileCursor constructed;
                         \* the lists above hold indices into it
    loading |-> <<>>,    \* Promise.resolve(texture) callbacks not yet run
    parses |-> 1,        \* calls of parseTileMap
    ops |-> 0,           \* operations performed after construction
    trace |-> <<>> ]     \* the calls the last operation made, in order

\* get wallHeightWithZ
wallHeightWithZ(r) == r.wallHeight + r.largestDiff * 32

\* getPosition reading roomBounds, which moves with wallDepth and wallHeight
getPositionFromRoomBounds(r, roomX, roomY, roomZ, type) ==
  LET base == IF type = "plane"
              THEN [x |-> roomX + r.wallOffsets.x, y |-> roomY + r.wallOffsets.y]
              ELSE IF type = "object"
              THEN [x |-> roomX + r.positionOffsets.x,
                    y |-> roomY + r.positionOffsets.y]
              ELSE [x |-> roomX, y |-> roomY]
      xPos == -(r.tileMapBounds.minX - r.wallDepth) + base.x * 32 - base.y * 32
      yPos == -(r.tileMapBounds.minY - r.wallHeight - r.wallDepth)
                + base.x * 16 + base.y * 16
  IN [x |-> xPos, y |-> yPos - roomZ * 32]

\* getPosition(roomX, roomY, roomZ, type)
getPosition(r, roomX, roomY, roomZ, type) ==
  LET base == IF type = "plane"
              THEN [x |-> roomX + r.wallOffsets.x, y |-> roomY + r.wallOffsets.y]
              ELSE IF type = "object"
              THEN [x |-> roomX + r.positionOffsets.x,
                    y |-> roomY + r.positionOffsets.y]
              ELSE [x |-> roomX, y |-> roomY]
      xPos == -r.tileMapBounds.minX + base.x * 32 - base.y * 32
      yPos == -r.tileMapBounds.minY + base.x * 16 + base.y * 16
  IN [x |-> xPos, y |-> yPos - roomZ * 32]

\* getTileAtPosition looking the cell up with the wall offsets
getTileAtPositionWallOffsets(r, roomX, roomY) ==
  LET row == At(r.parsedTileMap, roomY + r.wallOffsets.y)
  IN IF row = None THEN None ELSE At(Get(row), roomX + r.wallOffsets.x)

\* getTileAtPosition(roomX, roomY)
getTileAtPosition(r, roomX, roomY) ==
  LET row == At(r.parsedTileMap, roomY + r.positionOffsets.y)
  IN IF row = None THEN None ELSE At(Get(row), roomX + r.positionOffsets.x)

\* a ?? b
Coalesce(a, b) == IF IsSome(a) THEN Get(a) ELSE b

\* new Wall / Tile / Stair / TileCursor(...): the object joins r.objects
Construct(r, fields) ==
  [r EXCEPT !.objects = Append(@, ([id |-> Len(@) + 1] @@ fields) @@ NewObject)]

LastId(r) == Len(r.objects)

\* addRoomObject(object)
addRoomObject(r, id) ==
  [r EXCEPT !.objects[id] = setParent(@, RoomContext).o,
            !.roomObjects = Append(@, id),
            !.trace = Append(@, Call("addRoomObject", id, ""))]

\* registerWall(wall), for the wall constructed last
registerWall(r) ==
  IF r.hideWalls \/ r.hideFloor THEN r
  ELSE addRoomObject([r EXCEPT !.walls = Append(@, LastId(r))], LastId(r))

\* registerTile(tile), for the tile or stair constructed last
registerTile(r) ==
  IF r.hideFloor THEN r
  ELSE addRoomObject([r EXCEPT !.floor = Append(@, LastId(r))], LastId(r))

\* registerTileCursor(position, door)
registerTileCursor(r, roomX, roomY, roomZ, door) ==
  LET c == Construct(r, [class |-> "TileCursor", roomX |-> roomX,
                         roomY |-> roomY, roomZ |-> roomZ, door |-> door])
  IN addRoomObject([c EXCEPT !.cursors = Append(@, LastId(c))], LastId(c))

NewWall(r, roomX, roomY, roomZ, direction, color, texture, hideBorder, doorHeight, side) ==
  Construct(r, [class |-> "Wall", roomX |-> roomX, roomY |-> roomY,
                roomZ |-> roomZ, direction |-> direction,
                tileHeight |-> r.tileHeight, wallHeight |-> wallHeightWithZ(r),
                color |-> color, texture |-> texture, wallDepth |-> r.wallDepth,
                hideBorder |-> hideBorder, doorHeight |-> doorHeight,
                side |-> side])

NewTile(r, roomX, roomY, roomZ, door) ==
  Construct(r, [class |-> "Tile", roomX |-> roomX, roomY |-> roomY,
                roomZ |-> roomZ, edge |-> TRUE, tileHeight |-> r.tileHeight,
                color |-> Some(Coalesce(r.floorColor, r.tileColor)),
                texture |-> None, door |-> door])

NewStair(r, roomX, roomY, roomZ, direction) ==
  Construct(r, [class |-> "Stair", roomX |-> roomX, roomY |-> roomY,
                roomZ |-> roomZ, tileHeight |-> r.tileHeight,
                color |-> Some(r.tileColor), texture |-> None,
                direction |-> direction])

\* getWallDirection that also gives an inner corner a direction
getWallDirectionInner(tile) ==
  IF tile.type # "wall" THEN None
  ELSE IF tile.kind = "rowWall" THEN Some("left")
  ELSE IF tile.kind = "colWall" THEN Some("right")
  ELSE IF tile.kind = "outerCorner" THEN Some("corner")
  ELSE Some("left")

\* getWallDirection(tile)
getWallDirection(tile) ==
  IF tile.type # "wall" THEN None
  ELSE IF tile.kind = "rowWall" THEN Some("left")
  ELSE IF tile.kind = "colWall" THEN Some("right")
  ELSE IF tile.kind = "outerCorner" THEN Some("corner")
  ELSE None

RECURSIVE DestroyEach(_, _)
\* [...].forEach((value) => value.destroy())
DestroyEach(r, ids) ==
  IF ids = <<>> THEN r
  ELSE DestroyEach(
         [r EXCEPT !.objects[Head(ids)] = destroy(@, FALSE, 0).o,
                   !.trace = Append(@, Call("destroy", Head(ids), ""))],
         Tail(ids))

\* resetTiles()
resetTiles(r) ==
  [DestroyEach(r, r.floor \o r.walls \o r.cursors)
     EXCEPT !.floor = <<>>, !.walls = <<>>, !.cursors = <<>>,
            !.doorWall = None]

\* the body of the loops of updateTiles for the cell at column x, row y
UpdateCell(r, x, y) ==
  LET tile == r.parsedTileMap[y + 1][x + 1]
      roomX == x - r.wallOffsets.x
      roomY == y - r.wallOffsets.y
      doorWall ==
        registerWall(NewWall(registerTile(NewTile(r, roomX, roomY, tile.z, Some(TRUE))),
                             roomX, roomY, tile.z, "left",
                             Some(Coalesce(r.wallColor, "#ffffff")),
                             r.currentWallTexture, Some(TRUE), Some(30), None))
      a == IF tile.type = "door"
           THEN registerTileCursor([doorWall EXCEPT !.doorWall = Some(LastId(doorWall))],
                                   roomX, roomY, tile.z, TRUE)
           ELSE r
      b == IF tile.type = "tile"
           THEN registerTileCursor(registerTile(NewTile(a, roomX, roomY, tile.z, None)),
                                   roomX, roomY, tile.z, FALSE)
           ELSE a
      direction == getWallDirection(tile)
      c == IF IsSome(direction) /\ tile.type = "wall"
           THEN registerWall(NewWall(b, roomX, roomY, tile.height, Get(direction),
                                     Some(Coalesce(b.wallColor, "#ffffff")),
                                     b.currentWallTexture, Some(tile.hideBorder),
                                     None, None))
           ELSE b
      d == IF tile.type = "wall" /\ tile.kind = "innerCorner"
           THEN registerWall(
                  NewWall(registerWall(NewWall(c, roomX, roomY, tile.height, "right",
                                               Some("#ffffff"), None, None, None,
                                               Some(FALSE))),
                          roomX, roomY, tile.height, "left", Some("#ffffff"), None,
                          None, None, Some(FALSE)))
           ELSE c
  IN IF tile.type = "stairs"
     THEN registerTileCursor(
            registerTileCursor(registerTile(NewStair(d, roomX, roomY, tile.z, tile.kind)),
                               roomX, roomY, tile.z, FALSE),
            roomX, roomY, tile.z + 1, FALSE)
     ELSE d

RECURSIVE UpdateCells(_, _, _)
\* for (y ...) for (x ...): the cells from (x, y) on, in row-major order
UpdateCells(r, x, y) ==
  IF y >= Len(r.parsedTileMap) THEN r
  ELSE IF x >= Len(r.parsedTileMap[y + 1]) THEN UpdateCells(r, 0, y + 1)
  ELSE UpdateCells(UpdateCell(r, x, y), x + 1, y)

\* updateTiles adding to the objects of the earlier rebuild
updateTilesWithoutReset(r) == UpdateCells(r, 0, 0)

\* updateTiles()
updateTiles(r) == UpdateCells(resetTiles(r), 0, 0)

\* visualization.disableCache() / enableCache() / updateRoom(this)
disableCache(r) == [r EXCEPT !.trace = Append(@, Call("disableCache", 0, ""))]
enableCache(r) == [r EXCEPT !.trace = Append(@, Call("enableCache", 0, ""))]
updateRoom(r) == [r EXCEPT !.trace = Append(@, Call("updateRoom", 0, ""))]

\* object.prop = value, on the object with index id
SetProp(r, id, prop, value) ==
  [r EXCEPT !.objects[id] = [@ EXCEPT ![prop] = value],
            !.trace = Append(@, Call("set", id, prop))]

RECURSIVE SetEach(_, _, _, _)
\* list.forEach((o) => { o.prop = value })
SetEach(r, ids, prop, value) ==
  IF ids = <<>> THEN r
  ELSE SetEach(SetProp(r, Head(ids), prop, value), Tail(ids), prop, value)

RECURSIVE SetTextureAndColor(_, _, _, _)
\* list.forEach((o) => { o.texture = texture; o.color = color })
SetTextureAndColor(r, ids, texture, color) ==
  IF ids = <<>> THEN r
  ELSE SetTextureAndColor(
         SetProp(SetProp(r, Head(ids), "texture", texture), Head(ids), "color", color),
         Tail(ids), texture, color)

\* _updateWallDepth()
updateWallDepth(r) ==
  enableCache(SetEach(disableCache(r), r.walls, "wallDepth", r.wallDepth))

\* _updateWallHeight assigning wallHeight instead of wallHeightWithZ
updateWallHeightWithoutZ(r) ==
  enableCache(SetEach(disableCache(updateRoom(r)), r.walls, "wallHeight",
                      r.wallHeight))

\* _updateWallHeight()
updateWallHeight(r) ==
  enableCache(SetEach(disableCache(updateRoom(r)), r.walls, "wallHeight",
                      wallHeightWithZ(r)))

\* _updateTileHeight resuming the cache before the walls are updated
updateTileHeightEarlyResume(r) ==
  SetEach(enableCache(SetEach(disableCache(r), r.floor, "tileHeight", r.tileHeight)),
          r.walls, "tileHeight", r.tileHeight)

\* _updateTileHeight()
updateTileHeight(r) ==
  enableCache(SetEach(SetEach(disableCache(r), r.floor, "tileHeight", r.tileHeight),
                      r.walls, "tileHeight", r.tileHeight))

\* updateTextures()
updateTextures(r) ==
  enableCache(
    SetTextureAndColor(
      SetTextureAndColor(disableCache(r), r.walls, r.currentWallTexture, r.wallColor),
      r.floor, r.currentFloorTexture, r.floorColor))

\* loadWallTextures() / loadFloorTextures(): Promise.resolve(texture).then(...)
loadWallTextures(r) ==
  [r EXCEPT !.loading = Append(@, [kind |-> "wall", texture |-> r.wallTexture])]

loadFloorTextures(r) ==
  [r EXCEPT !.loading = Append(@, [kind |-> "floor", texture |-> r.floorTexture])]

\* the .then callbacks rebuilding the tiles instead of updating them in place
loadTexturesThenRebuild(r, kind, texture) ==
  IF kind = "wall"
  THEN updateTiles([r EXCEPT !.currentWallTexture = texture])
  ELSE updateTiles([r EXCEPT !.currentFloorTexture = texture])

\* the .then callbacks of loadWallTextures / loadFloorTextures
loadTexturesThen(r, kind, texture) ==
  IF kind = "wall"
  THEN updateTextures([r EXCEPT !.currentWallTexture = texture])
  ELSE updateTextures([r EXCEPT !.currentFloorTexture = texture])

(***************************************************************************)
(* Operations on the room.                                                 *)
(***************************************************************************)
OtherUnchangedR == UNCHANGED <<avatar, avatarOp, obj, objOp>>

\* the room at the start of an operation after construction
Begin(r) == [r EXCEPT !.trace = <<>>, !.ops = @ + 1]

RoomOp(op, value) == [op |-> op, value |-> value]

SetHideWalls ==
  \E value \in BOOLEAN :
    /\ room.ops < MaxRoomOps
    /\ room' = updateTiles([Begin(room) EXCEPT !.hideWalls = value])
    /\ roomOp' = RoomOp("hideWalls", <<value>>)
    /\ OtherUnchangedR

SetHideFloor ==
  \E value \in BOOLEAN :
    /\ room.ops < MaxRoomOps
    /\ room' = updateTiles([Begin(room) EXCEPT !.hideFloor = value])
    /\ roomOp' = RoomOp("hideFloor", <<value>>)
    /\ OtherUnchangedR

SetWallHeight ==
  \E value \in WallHeights :
    /\ room.ops < MaxRoomOps
    /\ room' = updateWallHeight([Begin(room) EXCEPT !.wallHeight = value])
    /\ roomOp' = RoomOp("wallHeight", <<value>>)
    /\ OtherUnchangedR

SetTileHeight ==
  \E value \in TileHeights :
    /\ room.ops < MaxRoomOps
    /\ room' = updateTileHeight([Begin(room) EXCEPT !.tileHeight = value])
    /\ roomOp' = RoomOp("tileHeight", <<value>>)
    /\ OtherUnchangedR

SetWallDepth ==
  \E value \in WallDepths :
    /\ room.ops < MaxRoomOps
    /\ room' = updateWallDepth([Begin(room) EXCEPT !.wallDepth = value])
    /\ roomOp' = RoomOp("wallDepth", <<value>>)
    /\ OtherUnchangedR

SetWallTexture ==
  \E value \in WallTextures :
    /\ room.ops < MaxRoomOps
    /\ room' = loadWallTextures([Begin(room) EXCEPT !.wallTexture = Some(value)])
    /\ roomOp' = RoomOp("wallTexture", <<value>>)
    /\ OtherUnchangedR

SetFloorTexture ==
  \E value \in FloorTextures :
    /\ room.ops < MaxRoomOps
    /\ room' = loadFloorTextures([Begin(room) EXCEPT !.floorTexture = Some(value)])
    /\ roomOp' = RoomOp("floorTexture", <<value>>)
    /\ OtherUnchangedR

SetWallColor ==
  \E value \in WallColors :
    /\ room.ops < MaxRoomOps
    /\ room' = updateTextures([Begin(room) EXCEPT !.wallColor = value])
    /\ roomOp' = RoomOp("wallColor", value)
    /\ OtherUnchangedR

SetFloorColor ==
  \E value \in FloorColors :
    /\ room.ops < MaxRoomOps
    /\ room' = updateTextures([Begin(room) EXCEPT !.floorColor = value])
    /\ roomOp' = RoomOp("floorColor", value)
    /\ OtherUnchangedR

\* the promise of one assigned texture resolves and its callback runs
TextureLoaded ==
  \E i \in 1..Len(room.loading) :
    /\ room' = loadTexturesThen(
                 [room EXCEPT !.trace = <<>>,
                              !.loading = SubSeq(@, 1, i - 1) \o SubSeq(@, i + 1, Len(@))],
                 room.loading[i].kind, room.loading[i].texture)
    /\ roomOp' = RoomOp("textureLoaded", <<room.loading[i].kind>>)
    /\ OtherUnchangedR

\* what the host passes to getPosition and getTileAtPosition
QueryPositions == {<<0, 0, 0>>, <<1, 2, 1>>}
QueryKinds == {"plane", "object", "none"}
QueryCoordinates == {-3, 0, 4}

RoomQuery(op, value, result) == [op |-> op, value |-> value, result |-> result]

GetPosition ==
  \E p \in QueryPositions, type \in QueryKinds :
    /\ roomOp' = RoomQuery("getPosition", <<p[1], p[2], p[3], type>>,
                           <<getPosition(room, p[1], p[2], p[3], type)>>)
    /\ UNCHANGED room
    /\ OtherUnchangedR

GetTileAtPosition ==
  \E roomX \in QueryCoordinates, roomY \in QueryCoordinates :
    /\ roomOp' = RoomQuery("getTileAtPosition", <<roomX, roomY>>,
                           getTileAtPosition(room, roomX, roomY))
    /\ UNCHANGED room
    /\ OtherUnchangedR

AvatarIdle == avatar = NewAvatar(LookPlain) /\ avatarOp = <<>>
ObjectsIdle == obj = [id \in Objects |-> NewObject] /\ objOp = <<>>
RoomIdle == room = <<>> /\ roomOp = <<>>

InitAvatar ==
  /\ avatar = NewAvatar(LookPlain)
  /\ avatarOp = [op |-> "new", look |-> None, id |-> 0, awaited |-> None,
                 identical |-> TRUE]
  /\ ObjectsIdle
  /\ RoomIdle

NextAvatar ==
  \/ SetDependencies
  \/ SetLookOptions
  \/ SetCurrentFrame
  \/ Tick
  \/ Resolve
  \/ Reject

SpecAvatar == InitAvatar /\ [][NextAvatar]_vars

\* set lookOptions(lookOptions) with one of two figures
SetFigure ==
  \E l \in {LookPlain, LookOtherId} :
    /\ avatar' = updateLookOptions(avatar, avatar.lookOptions, l)
    /\ avatarOp' = AvatarOp("lookOptions", Some(l), 0)
    /\ OtherUnchangedA

\* an avatar whose host assigns any frame index and two looks
NextFrames ==
  \/ SetDependencies
  \/ SetFrameIndex
  \/ SetFigure
  \/ Tick
  \/ Resolve

SpecFrames == InitAvatar /\ [][NextFrames]_vars

(***************************************************************************)
(* An avatar whose host assigns finitely many looks, whose clock keeps     *)
(* ticking and whose requests all succeed. avatarOp holds the look         *)
(* assigned last (the construction look at first) and the number of        *)
(* setter calls.                                                           *)
(***************************************************************************)
SettlingLooks == {LookPlain, LookOtherId, LookOtherDirection}

Assigned(op, last, calls) == [op |-> op, last |-> last, calls |-> calls]

InitSettling ==
  /\ avatar = NewAvatar(ConstructionLook)
  /\ avatarOp = Assigned("new", ConstructionLook, 0)
  /\ ObjectsIdle
  /\ RoomIdle

\* set dependencies(value)
SettlingSetDependencies ==
  /\ ~avatar.mounted
  /\ avatar' = reloadLook([avatar EXCEPT !.mounted = TRUE])
  /\ avatarOp' = Assigned("dependencies", avatarOp.last, avatarOp.calls)
  /\ OtherUnchangedA

\* set lookOptions(lookOptions)
SettlingSetLookOptions ==
  \E l \in SettlingLooks :
    /\ avatarOp.calls < MaxLookCalls
    /\ avatar' = updateLookOptions(avatar, avatar.lookOptions, l)
    /\ avatarOp' = Assigned("lookOptions", l, avatarOp.calls + 1)
    /\ OtherUnchangedA

\* one tick of the animation ticker
SettlingTick ==
  /\ avatar.mounted
  /\ avatar' = tickerCallback(avatar)
  /\ avatarOp' = Assigned("tick", avatarOp.last, avatarOp.calls)
  /\ OtherUnchangedA

\* the loader's promise of one request fulfils
SettlingResolve ==
  \E request \in avatar.inflight :
    /\ avatar' = reloadLookThen([avatar EXCEPT !.inflight = @ \ {request}],
                                request, LoaderResult(request.lookOptions))
    /\ avatarOp' = Assigned("resolve", avatarOp.last, avatarOp.calls)
    /\ OtherUnchangedA

NextSettling ==
  \/ SettlingSetDependencies
  \/ SettlingSetLookOptions
  \/ SettlingTick
  \/ SettlingResolve

\* Every request eventually succeeds: no request stays in flight for ever.
\* SettlingResolve is enabled exactly when a request is in flight and each of
\* its steps takes one out, so with finitely many requests this is the weak
\* fairness of SettlingResolve, stated on the state.
EveryRequestSucceeds == []<>(avatar.inflight = {})

\* the avatar is mounted, the clock keeps ticking, every request succeeds
SpecSettling ==
  /\ InitSettling
  /\ [][NextSettling]_vars
  /\ WF_vars(SettlingSetDependencies)
  /\ WF_vars(SettlingTick)
  /\ EveryRequestSucceeds

(***************************************************************************)
(* An avatar that its host destroys. The host calls nothing on the avatar  *)
(* after destroy(); the ticker and the loader's promises go on. avatarOp   *)
(* holds the last operation and whether destroy() has been called.         *)
(***************************************************************************)
Disposal(op, destroyed) == [op |-> op, destroyed |-> destroyed]

InitDisposal ==
  /\ avatar = NewAvatar(ConstructionLook)
  /\ avatarOp = Disposal("new", FALSE)
  /\ ObjectsIdle
  /\ RoomIdle

\* set dependencies(value)
DisposalSetDependencies ==
  /\ ~avatarOp.destroyed
  /\ ~avatar.mounted
  /\ avatar' = reloadLook([avatar EXCEPT !.mounted = TRUE])
  /\ avatarOp' = Disposal("dependencies", FALSE)
  /\ OtherUnchangedA

\* set lookOptions(lookOptions)
DisposalSetLookOptions ==
  \E l \in SettlingLooks :
    /\ ~avatarOp.destroyed
    /\ avatar' = updateLookOptions(avatar, avatar.lookOptions, l)
    /\ avatarOp' = Disposal("lookOptions", FALSE)
    /\ OtherUnchangedA

\* set currentFrame(value)
DisposalSetCurrentFrame ==
  \E value \in 0..MaxFrame :
    /\ ~avatarOp.destroyed
    /\ avatar' = currentFrameSetter(avatar, value)
    /\ avatarOp' = Disposal("currentFrame", FALSE)
    /\ OtherUnchangedA

\* destroy()
DisposalDestroy ==
  /\ ~avatarOp.destroyed
  /\ avatar' = destroyAvatar(avatar)
  /\ avatarOp' = Disposal("destroy", TRUE)
  /\ OtherUnchangedA

\* one tick of the animation ticker: the subscription is never cancelled
DisposalTick ==
  /\ avatar.mounted
  /\ (avatar.refreshLook /\ IsSome(avatar.nextLookOptions))
       => avatar.updateId < MaxRequests
  /\ avatar' = tickerCallback(avatar)
  /\ avatarOp' = Disposal("tick", avatarOp.destroyed)
  /\ OtherUnchangedA

\* the loader's promise of one request fulfils
DisposalResolve ==
  \E request \in avatar.inflight :
    /\ avatar' = reloadLookThen([avatar EXCEPT !.inflight = @ \ {request}],
                                request, LoaderResult(request.lookOptions))
    /\ avatarOp' = Disposal("resolve", avatarOp.destroyed)
    /\ OtherUnchangedA

NextDisposal ==
  \/ DisposalSetDependencies
  \/ DisposalSetLookOptions
  \/ DisposalSetCurrentFrame
  \/ DisposalDestroy
  \/ DisposalTick
  \/ DisposalResolve

SpecDisposal == InitDisposal /\ [][NextDisposal]_vars

InitObject ==
  /\ obj = [id \in Objects |-> NewObject]
  /\ objOp = [op |-> "new", id |-> "", ctx |-> "", error |-> NoError,
              reenter |-> FALSE, repeated |-> FALSE]
  /\ AvatarIdle
  /\ RoomIdle

NextObject ==
  \/ SetParent
  \/ Destroy

SpecObject == InitObject /\ [][NextObject]_vars

\* new Room({tilemap, ...}): parses the tile map and builds the tiles
InitRoom ==
  /\ \E parsed \in ParsedTileMaps : room = updateTiles(NewRoom(parsed))
  /\ roomOp = RoomOp("new", <<>>)
  /\ AvatarIdle
  /\ ObjectsIdle

NextRoom ==
  \/ SetHideWalls
  \/ SetHideFloor
  \/ SetWallHeight
  \/ SetTileHeight
  \/ SetWallDepth
  \/ SetWallTexture
  \/ SetFloorTexture
  \/ SetWallColor
  \/ SetFloorColor
  \/ TextureLoaded

SpecRoom == InitRoom /\ [][NextRoom]_vars

\* a room whose host styles it and asks it for positions and tiles
NextRoomQuery ==
  \/ NextRoom /\ room'.ops <= MaxStyledOps
  \/ GetPosition
  \/ GetTileAtPosition

SpecRoomQuery == InitRoom /\ [][NextRoomQuery]_vars

(***************************************************************************)
(*                    Properties of the look resolution                    *)
(***************************************************************************)

\* what a response can change: everything of the avatar but its promises
RenderState(a) == [a EXCEPT !.inflight = {}]

\* a request was issued in this step, carrying look
Issued(look) ==
  /\ avatar'.updateId = avatar.updateId + 1
  /\ avatar'.inflight =
       avatar.inflight \cup {[requestId |-> avatar'.updateId, lookOptions |-> look]}

\* no request was issued in this step
NothingIssued ==
  /\ avatar'.updateId = avatar.updateId
  /\ avatar'.inflight \subseteq avatar.inflight

\* C1: a response is applied (loader result stored, applied look replaced,
\* pending look cleared, sprite graph rebuilt) only when its request id is the
\* latest issued id at its arrival; a response to an earlier request changes
\* nothing of the avatar, whatever the arrival order.
C1_StaleResponseChangesNothing ==
  [][\A request \in avatar.inflight :
       (avatarOp'.op = "resolve" /\ avatarOp'.id = request.requestId) =>
         IF request.requestId = avatar.updateId
         THEN /\ avatar'.avatarLoaderResult = Some(LoaderResult(request.lookOptions))
              /\ avatar'.lookOptions = Some(request.lookOptions)
              /\ avatar'.nextLookOptions = None
              /\ IsSome(avatar'.avatarDrawDefinition)
              /\ IsSome(avatar'.container)
              /\ ~Get(avatar'.container).destroyed
         ELSE RenderState(avatar') = RenderState(avatar)]_vars

\* a response to the first request arrived after the response to a later
\* request had been applied
C1_Witness ==
  /\ avatarOp.op = "resolve"
  /\ avatarOp.id < avatar.updateId
  /\ IsSome(avatar.avatarLoaderResult)

\* C2: when the setter of a mounted avatar is given a look that differs from
\* the looks the avatar holds, the next clock tick issues exactly one request,
\* carrying that look, whatever responses arrive in between.
C2_ChangedLookIsRequestedAtNextTick ==
  [][(avatarOp'.op = "tick" /\ IsSome(avatarOp.awaited)) =>
       Issued(Get(avatarOp.awaited))]_vars

\* C3: while every look assigned through the setter is field-for-field the
\* construction look, no request beyond the one of the construction look is
\* issued.
C3_IdenticalLookIssuesNoRequest ==
  avatarOp.identical => avatar.updateId <= 1

\* C4: assigning a look that agrees with the look it is compared against (the
\* applied look) in look id, item, effect and direction, and whose action set
\* has the same members in another order, leaves the look-dirty flag and the
\* pending look as they are and issues no request.
PermutedLook(old, new) ==
  /\ LookEqual(old, new)
  /\ old.actions # new.actions

C4_PermutedActionsTriggerNothing ==
  [][(/\ avatarOp'.op = "lookOptions"
      /\ IsSome(avatar.lookOptions)
      /\ PermutedLook(Get(avatar.lookOptions), Get(avatarOp'.look))) =>
       /\ avatar'.refreshLook = avatar.refreshLook
       /\ avatar'.nextLookOptions = avatar.nextLookOptions
       /\ NothingIssued]_vars

\* the setter was given the applied look with its actions in another order,
\* and nothing is pending
C4_Witness ==
  /\ avatarOp.op = "lookOptions"
  /\ IsSome(avatar.lookOptions)
  /\ PermutedLook(Get(avatar.lookOptions), Get(avatarOp.look))
  /\ ~avatar.refreshLook
  /\ avatar.nextLookOptions = None

(***************************************************************************)
(*                  Properties of the RoomObject lifecycle                 *)
(***************************************************************************)

\* C5: destroy() on an attached object runs the container's removeRoomObject
\* and the destroyed() hook once each, also when the container re-enters
\* destroy(); a second destroy() changes nothing and raises no error.
C5_DestroyIsIdempotent ==
  [][\A id \in Objects :
       (objOp'.op = "destroy" /\ objOp'.id = id) =>
         /\ IsSome(obj[id].context) =>
              /\ obj'[id].removeCalls = obj[id].removeCalls + 1
              /\ obj'[id].destroyedCalls = obj[id].destroyedCalls + 1
              /\ obj'[id].context = None
              /\ obj'[id].isDestroyed
              /\ objOp'.error = NoError
         /\ objOp'.repeated =>
              /\ obj'[id] = obj[id]
              /\ objOp'.error = NoError]_vars

\* destroy() was called a second time on an object that had been attached,
\* with a container that re-enters destroy()
C5_Witness ==
  /\ objOp.op = "destroy"
  /\ objOp.repeated
  /\ objOp.reenter
  /\ obj[objOp.id].registeredCalls = 1
  /\ obj[objOp.id].destroyedCalls = 1
  /\ obj[objOp.id].removeCalls = 1

\* C6: setParent() on an object that holds a context fails, keeps the context
\* and does not invoke registered(); on an object without a context it stores
\* the context and invokes registered() once.
C6_SetParentAttachesOnce ==
  [][\A id \in Objects :
       (objOp'.op = "setParent" /\ objOp'.id = id) =>
         IF IsSome(obj[id].context)
         THEN /\ objOp'.error # NoError
              /\ obj'[id] = obj[id]
         ELSE /\ objOp'.error = NoError
              /\ obj'[id].context = Some(objOp'.ctx)
              /\ obj'[id].registeredCalls = obj[id].registeredCalls + 1]_vars

\* setParent() with another context failed on an attached object
C6_Witness ==
  /\ objOp.op = "setParent"
  /\ objOp.error # NoError
  /\ IsSome(obj[objOp.id].context)
  /\ Get(obj[objOp.id].context) # objOp.ctx
  /\ obj[objOp.id].registeredCalls = 1

(***************************************************************************)
(*                         Properties of the Room                          *)
(***************************************************************************)

\* the objects in the active lists
ActiveIds(r) == Range(r.walls) \cup Range(r.floor) \cup Range(r.cursors)

\* how many cache suspensions are open after the first n calls of trace t
RECURSIVE Suspended(_, _)
Suspended(t, n) ==
  IF n = 0 THEN 0
  ELSE Suspended(t, n - 1)
         + (IF t[n].ev = "disableCache" THEN 1
            ELSE IF t[n].ev = "enableCache" THEN -1 ELSE 0)

\* C7: in every in-place propagation the cache is suspended before the first
\* object is mutated and resumed only after the last; after every operation
\* the suspend and resume calls are balanced.
C7_MutationsAreBracketed ==
  /\ \A i \in 1..Len(room.trace) :
       /\ room.trace[i].ev = "set" => Suspended(room.trace, i - 1) > 0
       /\ Suspended(room.trace, i) >= 0
  /\ Suspended(room.trace, Len(room.trace)) = 0

\* tileHeight was propagated to floor and wall objects
C7_Witness ==
  /\ roomOp.op = "tileHeight"
  /\ Len(room.walls) > 1
  /\ Len(room.floor) > 1
  /\ Len(room.trace) = Len(room.walls) + Len(room.floor) + 2
  /\ room.trace[1].ev = "disableCache"
  /\ room.trace[Len(room.trace)].ev = "enableCache"

\* the lifecycle part of an object
Lifecycle(o) ==
  <<o.context, o.isDestroyed, o.registeredCalls, o.destroyedCalls, o.removeCalls>>

\* a full rebuild: every object that was active is destroyed, the lists hold
\* objects constructed in this step, and the cursors of the grid are back
FullRebuild ==
  /\ \A id \in ActiveIds(room) : room'.objects[id].isDestroyed
  /\ \A id \in ActiveIds(room') : id > Len(room.objects)
  /\ Len(room'.cursors) = Len(room.cursors)

\* no object is destroyed or created and the lists stay as they are
NothingDestroyedOrCreated ==
  /\ room'.walls = room.walls
  /\ room'.floor = room.floor
  /\ room'.cursors = room.cursors
  /\ room'.roomObjects = room.roomObjects
  /\ Len(room'.objects) = Len(room.objects)
  /\ \A id \in 1..Len(room.objects) :
       Lifecycle(room'.objects[id]) = Lifecycle(room.objects[id])

\* every property written in this step is one of props
OnlyWrites(props) ==
  \A i \in 1..Len(room'.trace) :
    room'.trace[i].ev = "set" => room'.trace[i].prop \in props

\* C8 as stated: hideWalls, hideFloor, wallTexture and floorTexture rebuild
\* (a texture when it has loaded); wallHeight, tileHeight, wallDepth, wallColor
\* and floorColor write only the changed property onto the existing objects.
C8_TexturesRebuildOthersInPlace ==
  [][/\ roomOp'.op \in {"hideWalls", "hideFloor", "textureLoaded"} => FullRebuild
     /\ roomOp'.op \in {"wallHeight", "tileHeight", "wallDepth"} =>
          NothingDestroyedOrCreated /\ OnlyWrites({roomOp'.op})
     /\ roomOp'.op \in {"wallColor", "floorColor"} =>
          NothingDestroyedOrCreated /\ OnlyWrites({"color"})]_vars

\* C8 amended: hideWalls and hideFloor rebuild; every other setter leaves the
\* objects and lists in place. wallHeight, tileHeight and wallDepth write that
\* property alone; wallColor, floorColor and a loaded wallTexture or
\* floorTexture write texture and color; assigning a texture writes nothing
\* before it has loaded.
C8_OnlyVisibilityRebuilds ==
  [][/\ roomOp'.op \in {"hideWalls", "hideFloor"} => FullRebuild
     /\ roomOp'.op \in {"wallHeight", "tileHeight", "wallDepth"} =>
          NothingDestroyedOrCreated /\ OnlyWrites({roomOp'.op})
     /\ roomOp'.op \in {"wallColor", "floorColor", "textureLoaded"} =>
          NothingDestroyedOrCreated /\ OnlyWrites({"color", "texture"})
     /\ roomOp'.op \in {"wallTexture", "floorTexture"} =>
          NothingDestroyedOrCreated /\ OnlyWrites({})]_vars

\* a wall texture has loaded and sits on every wall of a room with walls
C8_Witness ==
  /\ roomOp = RoomOp("textureLoaded", <<"wall">>)
  /\ Len(room.walls) > 1
  /\ IsSome(room.currentWallTexture)
  /\ \A id \in Range(room.walls) :
       room.objects[id].texture = room.currentWallTexture

\* C9: wallHeight = v gives every active wall the height v + 32 * largestDiff,
\* keeps the wall, floor and cursor lists, and neither parses the tile map
\* again nor changes the parsed grid, the offsets or the tile map bounds.
C9_WallHeightInPlace ==
  [][roomOp'.op = "wallHeight" =>
       /\ \A id \in Range(room.walls) :
            room'.objects[id].wallHeight
              = Get(roomOp'.value) + 32 * room.largestDiff
       /\ room'.walls = room.walls
       /\ room'.floor = room.floor
       /\ room'.cursors = room.cursors
       /\ Len(room'.objects) = Len(room.objects)
       /\ room'.parses = room.parses
       /\ room'.parsedTileMap = room.parsedTileMap
       /\ room'.wallOffsets = room.wallOffsets
       /\ room'.positionOffsets = room.positionOffsets
       /\ room'.tileMapBounds = room.tileMapBounds]_vars

\* wallHeight went to 150 in a room with walls and a height difference
C9_Witness ==
  /\ roomOp = RoomOp("wallHeight", <<150>>)
  /\ room.largestDiff = 1
  /\ Len(room.walls) > 1
  /\ \A id \in Range(room.walls) : room.objects[id].wallHeight = 182

\* what the claim says of an object: its kind, cell, elevation, facing and
\* door flag
Described(class, roomX, roomY, roomZ, direction, door) ==
  [class |-> class, roomX |-> roomX, roomY |-> roomY, roomZ |-> roomZ,
   direction |-> direction, door |-> door]

Describe(o) ==
  Described(o.class, o.roomX, o.roomY, o.roomZ,
            IF o.class = "Wall" THEN o.direction ELSE "",
            IF o.class = "Tile" THEN o.door = Some(TRUE)
            ELSE IF o.class = "TileCursor" THEN o.door ELSE FALSE)

\* the objects C10 lists for one cell
ExpectedOfCell(tile, roomX, roomY) ==
  IF tile.type = "door"
  THEN << Described("Tile", roomX, roomY, tile.z, "", TRUE),
          Described("Wall", roomX, roomY, tile.z, "left", FALSE),
          Described("TileCursor", roomX, roomY, tile.z, "", TRUE) >>
  ELSE IF tile.type = "tile"
  THEN << Described("Tile", roomX, roomY, tile.z, "", FALSE),
          Described("TileCursor", roomX, roomY, tile.z, "", FALSE) >>
  ELSE IF tile.type = "stairs"
  THEN << Described("Stair", roomX, roomY, tile.z, "", FALSE),
          Described("TileCursor", roomX, roomY, tile.z, "", FALSE),
          Described("TileCursor", roomX, roomY, tile.z + 1, "", FALSE) >>
  ELSE IF tile.type = "wall" /\ tile.kind = "rowWall"
  THEN << Described("Wall", roomX, roomY, tile.height, "left", FALSE) >>
  ELSE IF tile.type = "wall" /\ tile.kind = "colWall"
  THEN << Described("Wall", roomX, roomY, tile.height, "right", FALSE) >>
  ELSE IF tile.type = "wall" /\ tile.kind = "outerCorner"
  THEN << Described("Wall", roomX, roomY, tile.height, "corner", FALSE) >>
  ELSE IF tile.type = "wall" /\ tile.kind = "innerCorner"
  THEN << Described("Wall", roomX, roomY, tile.height, "right", FALSE),
          Described("Wall", roomX, roomY, tile.height, "left", FALSE) >>
  ELSE << >>

RECURSIVE ExpectedFrom(_, _, _)
\* the objects C10 lists for the cells from (x, y) on, in row-major order
ExpectedFrom(r, x, y) ==
  IF y >= Len(r.parsedTileMap) THEN << >>
  ELSE IF x >= Len(r.parsedTileMap[y + 1]) THEN ExpectedFrom(r, 0, y + 1)
  ELSE ExpectedOfCell(r.parsedTileMap[y + 1][x + 1],
                      x - r.wallOffsets.x, y - r.wallOffsets.y)
         \o ExpectedFrom(r, x + 1, y)

RECURSIVE InCreationOrder(_, _)
\* the objects with the given indices, oldest first
InCreationOrder(r, ids) ==
  IF ids = {} THEN << >>
  ELSE LET first == CHOOSE id \in ids : \A other \in ids : id <= other
       IN <<Describe(r.objects[first])>> \o InCreationOrder(r, ids \ {first})

CellsOfType(r, type) ==
  {<<x, y>> \in (1..4) \X (1..Len(r.parsedTileMap)) :
     x <= Len(r.parsedTileMap[y]) /\ r.parsedTileMap[y][x].type = type}

\* C10: after a full rebuild with hideWalls and hideFloor false the active
\* lists hold, in row-major cell order, exactly the objects listed per cell;
\* walls are in the wall list, tiles and stairs in the floor list, cursors in
\* the cursor list; 9 tile cells and no wall cell give 9 floor objects and no
\* wall.
C10_RebuildCreatesPerCell ==
  (roomOp.op \in {"new", "hideWalls", "hideFloor"}
     /\ ~room.hideWalls /\ ~room.hideFloor) =>
    /\ InCreationOrder(room, ActiveIds(room)) = ExpectedFrom(room, 0, 0)
    /\ \A id \in Range(room.walls) : room.objects[id].class = "Wall"
    /\ \A id \in Range(room.floor) : room.objects[id].class \in {"Tile", "Stair"}
    /\ \A id \in Range(room.cursors) : room.objects[id].class = "TileCursor"
    /\ Len(room.walls) + Len(room.floor) + Len(room.cursors)
         = Cardinality(ActiveIds(room))
    /\ (Cardinality(CellsOfType(room, "tile")) = 9
          /\ CellsOfType(room, "wall") = {}) =>
         (Len(room.floor) = 9 /\ Len(room.walls) = 0)

\* the walled room was rebuilt after its construction, walls and floor shown
C10_Witness ==
  /\ roomOp = RoomOp("hideWalls", <<FALSE>>)
  /\ ~room.hideFloor
  /\ Len(room.objects) > 18
  /\ Len(room.walls) = 7
  /\ Len(room.floor) = 5
  /\ Len(room.cursors) = 6

(***************************************************************************)
(*                    Properties of the Room's queries                     *)
(***************************************************************************)

\* the parseTileMap result the room was constructed from
Constructed(r) == CHOOSE parsed \in ParsedTileMaps : parsed.tilemap = r.parsedTileMap

\* the offsets C11 names for a kind
OffsetsOfKind(parsed, type) ==
  IF type = "plane" THEN parsed.wallOffsets
  ELSE IF type = "object" THEN parsed.positionOffsets
  ELSE [x |-> 0, y |-> 0]

\* the position C11 states, from the bounds and offsets of the construction
ExpectedPosition(parsed, roomX, roomY, roomZ, type) ==
  LET x == roomX + OffsetsOfKind(parsed, type).x
      y == roomY + OffsetsOfKind(parsed, type).y
  IN [x |-> -parsed.bounds.minX + 32 * x - 32 * y,
      y |-> -parsed.bounds.minY + 16 * x + 16 * y - 32 * roomZ]

\* C11: getPosition returns (-minX + 32x - 32y, -minY + 16x + 16y - 32 roomZ)
\* with (x, y) offset by kind and minX, minY the bounds of the construction;
\* no style setter, rebuild or texture load changes the result for any
\* argument.
C11_GetPositionIsStable ==
  [][/\ \A p \in QueryPositions, type \in QueryKinds :
          getPosition(room', p[1], p[2], p[3], type)
            = getPosition(room, p[1], p[2], p[3], type)
     /\ roomOp'.op = "getPosition" =>
          roomOp'.result
            = << ExpectedPosition(Constructed(room'), roomOp'.value[1],
                                  roomOp'.value[2], roomOp'.value[3],
                                  roomOp'.value[4]) >>]_vars

\* getPosition was asked for an object position after the room was restyled,
\* in a room whose object and wall offsets differ
C11_Witness ==
  /\ roomOp.op = "getPosition"
  /\ roomOp.value = <<1, 2, 1, "object">>
  /\ room.ops = 1
  /\ room.wallDepth = 12
  /\ room.positionOffsets # room.wallOffsets

\* C13: getTileAtPosition returns the parsed tile at row roomY +
\* positionOffsets.y, column roomX + positionOffsets.x when the cell is inside
\* the grid and nothing otherwise, and leaves the room as it was.
C13_GetTileAtPositionIsTotal ==
  [][roomOp'.op = "getTileAtPosition" =>
       LET x == roomOp'.value[1] + room.positionOffsets.x
           y == roomOp'.value[2] + room.positionOffsets.y
           inside == /\ y \in 0..(Len(room.parsedTileMap) - 1)
                     /\ x \in 0..(Len(room.parsedTileMap[y + 1]) - 1)
       IN /\ roomOp'.result = IF inside THEN Some(room.parsedTileMap[y + 1][x + 1])
                              ELSE None
          /\ room' = room]_vars

\* a cell left of and below the grid was asked for and nothing came back
C13_Witness ==
  /\ roomOp.op = "getTileAtPosition"
  /\ roomOp.value = <<-3, 4>>
  /\ roomOp.result = None
  /\ room.ops = 1

(***************************************************************************)
(*                  Properties of the avatar's frames                      *)
(***************************************************************************)

\* the parts of the stored draw definition of a mounted avatar
StoredParts ==
  IF avatar.mounted /\ IsSome(avatar.avatarDrawDefinition)
  THEN Range(Get(avatar.avatarDrawDefinition).parts)
  ELSE {}

\* C12: for a part with n >= 1 assets the asset selected at the assigned frame
\* index f exists, is assets[f mod n], and is the asset selected at f + n.
C12_FrameAssetIsPeriodic ==
  \A part \in StoredParts :
    LET n == Len(part.assets)
        f == avatar.currentFrame
    IN n >= 1 =>
         /\ IsSome(FrameAsset(part, f))
         /\ FrameAsset(part, f) = Some(part.assets[(f % n) + 1])
         /\ FrameAsset(part, f) = FrameAsset(part, f + n)

\* C14: a rejected request is not retried and leaves the stored loader result,
\* draw definition and applied look as the last applied resolution left them;
\* a clock tick without a look change pending issues no request and leaves
\* them too.
C14_RejectionIsNotRetried ==
  [][/\ avatarOp'.op = "reject" =>
          /\ NothingIssued
          /\ RenderState(avatar') = RenderState(avatar)
     /\ (avatarOp'.op = "tick" /\ ~avatar.refreshLook) =>
          /\ NothingIssued
          /\ avatar'.avatarLoaderResult = avatar.avatarLoaderResult
          /\ avatar'.avatarDrawDefinition = avatar.avatarDrawDefinition
          /\ avatar'.lookOptions = avatar.lookOptions]_vars

\* the latest request failed after an earlier one had been applied, and a
\* clock tick followed
C14_Witness ==
  /\ avatarOp.op = "tick"
  /\ avatar.updateId = 2
  /\ avatar.inflight = {}
  /\ IsSome(avatar.lookOptions)
  /\ IsSome(avatar.nextLookOptions)
  /\ lookOptionsGetter(avatar) # avatar.lookOptions

(***************************************************************************)
(*                  Properties of the Room's rebuilds                      *)
(***************************************************************************)

\* the positions of the trace at which ev was called
CallsOf(t, ev) == {i \in 1..Len(t) : t[i].ev = ev}

\* C15: a rebuild first destroys every object of the active wall, floor and
\* cursor lists, once each, and only then registers new objects; afterwards the
\* lists and the door-wall reference hold no object that existed before the
\* rebuild.
C15_RebuildTearsDownFirst ==
  [][roomOp'.op \in {"hideWalls", "hideFloor"} =>
       LET t == room'.trace
           old == 1..Len(room.objects)
       IN /\ {t[i].id : i \in CallsOf(t, "destroy")} = ActiveIds(room)
          /\ Cardinality(CallsOf(t, "destroy")) = Cardinality(ActiveIds(room))
          /\ \A i \in CallsOf(t, "destroy"), j \in CallsOf(t, "addRoomObject") :
               /\ i < j
               /\ t[j].id \notin old
          /\ \A id \in ActiveIds(room) : room'.objects[id].isDestroyed
          /\ ActiveIds(room') \cap old = {}
          /\ Range(room'.doorWall) \cap old = {}
          /\ \A id \in ActiveIds(room') : ~room'.objects[id].isDestroyed]_vars

\* a second rebuild of a room with walls, floor and cursors brought them back
C15_Witness ==
  /\ roomOp = RoomOp("hideFloor", <<FALSE>>)
  /\ room.ops = 2
  /\ ~room.hideWalls
  /\ Len(room.walls) > 1
  /\ Len(room.floor) > 1
  /\ room.trace[1].ev = "destroy"

\* C16: the room's list of registered objects holds no destroyed object and,
\* whatever the number of rebuilds, exactly the objects of the active lists.
C16_ContainerForgetsDestroyedObjects ==
  /\ \A id \in Range(room.roomObjects) : ~room.objects[id].isDestroyed
  /\ Len(room.roomObjects) = Cardinality(ActiveIds(room))

(***************************************************************************)
(*                 Properties of the avatar's requests                     *)
(***************************************************************************)

\* the requests issued in this step
NewRequests == avatar'.inflight \ avatar.inflight

\* C17: every request carries an id greater than the id of every request
\* issued before it, no two requests share an id, and at most one pending
\* request carries the latest id, the only id a response is accepted for.
C17_RequestIdsIncrease ==
  /\ [](/\ \A r \in avatar.inflight : r.requestId \in 1..avatar.updateId
        /\ \A r, q \in avatar.inflight : r.requestId = q.requestId => r = q)
  /\ [][/\ avatar'.updateId >= avatar.updateId
        /\ \A r \in NewRequests :
             /\ r.requestId = avatar'.updateId
             /\ r.requestId > avatar.updateId
             /\ NewRequests = {r}]_vars

\* two requests are pending, the second one issued after a look change
C17_Witness ==
  /\ avatar.updateId = 2
  /\ {r.requestId : r \in avatar.inflight} = {1, 2}
  /\ avatarOp.op = "tick"

\* the file ids of the assets the parts show at frame index f, for the assets
\* the loader has a texture for, in part order
ShownAt(parts, f) ==
  SelectSeq([i \in 1..Len(parts) |->
               parts[i].assets[(f % Len(parts[i].assets)) + 1].fileId],
            LAMBDA fileId : IsSome(GetTexture(Get(avatar.avatarLoaderResult), fileId)))

\* C18: assigning currentFrame another value sets the frame-dirty flag and
\* assigning the current value changes nothing; a clock tick that finds the
\* flag set clears it, rebuilds the sprite graph at the current frame index
\* from the stored draw definition, keeps the stored definition, loader result
\* and applied look, and issues no request and keeps the request id unless a
\* look change is pending too.
C18_FrameChangeRebuildsAtNextTick ==
  [][/\ avatarOp'.op = "currentFrame" =>
          IF avatar'.currentFrame # avatar.currentFrame
          THEN avatar' = [avatar EXCEPT !.currentFrame = avatar'.currentFrame,
                                        !.refreshFrame = TRUE]
          ELSE avatar' = avatar
     /\ (avatarOp'.op = "tick" /\ avatar.refreshFrame) =>
          /\ ~avatar'.refreshFrame
          /\ avatar'.currentFrame = avatar.currentFrame
          /\ avatar'.avatarDrawDefinition = avatar.avatarDrawDefinition
          /\ avatar'.avatarLoaderResult = avatar.avatarLoaderResult
          /\ avatar'.lookOptions = avatar.lookOptions
          /\ ~avatar.refreshLook => NothingIssued
          /\ IsSome(avatar.avatarDrawDefinition) =>
               /\ IsSome(avatar'.container)
               /\ Get(avatar'.container).children
                    = ShownAt(Get(avatar.avatarDrawDefinition).parts,
                              avatar.currentFrame)
               /\ \A i \in 1..Len(avatar'.sprites) :
                    avatar'.sprites[i].visible
                      <=> avatar'.assets[i] \in Range(Get(avatar'.container).children)]_vars

\* a tick rebuilt the sprite graph at frame index 1, showing the second head
\* image, with no request issued so far beyond the first
C18_Witness ==
  /\ avatarOp.op = "tick"
  /\ avatar.currentFrame = 1
  /\ ~avatar.refreshFrame
  /\ avatar.updateId = 1
  /\ IsSome(avatar.container)
  /\ Get(avatar.container).children = <<"hd_1", "ch_0">>

(***************************************************************************)
(*               Properties of the avatar's sprite graph                   *)
(***************************************************************************)

\* this step rebuilt the sprite graph: an accepted response, or a tick that
\* found the frame-dirty flag set and a stored draw definition
Rebuilt ==
  \/ avatarOp'.op = "resolve" /\ avatarOp'.id = avatar.updateId
  \/ avatarOp'.op = "tick" /\ avatar.refreshFrame
       /\ IsSome(avatar.avatarDrawDefinition)

\* the asset a part shows at frame index f, as the specification states it
AssetAt(part, f) == part.assets[(f % Len(part.assets)) + 1]

\* the parts of the active draw definition after this step
ActiveParts == Range(Get(avatar'.avatarDrawDefinition).parts)

\* C19: after a rebuild a cached node is visible and not ignorable exactly
\* when its asset id is the current-frame asset of a part of the active draw
\* definition, and hidden and ignorable otherwise; no step removes a node from
\* the sprite cache.
C19_OnlyCurrentAssetsAreVisible ==
  [][/\ Len(avatar'.assets) >= Len(avatar.assets)
     /\ SubSeq(avatar'.assets, 1, Len(avatar.assets)) = avatar.assets
     /\ Len(avatar'.sprites) = Len(avatar'.assets)
     /\ Rebuilt =>
          \A i \in 1..Len(avatar'.assets) :
            IF \E part \in ActiveParts :
                 AssetAt(part, avatar'.currentFrame).fileId = avatar'.assets[i]
            THEN avatar'.sprites[i].visible /\ ~avatar'.sprites[i].ignore
            ELSE ~avatar'.sprites[i].visible /\ avatar'.sprites[i].ignore]_vars

\* a rebuild after a look change kept a node of the earlier look in the cache,
\* hidden, beside the nodes it shows
C19_Witness ==
  /\ avatarOp.op = "resolve"
  /\ avatarOp.id = avatar.updateId
  /\ avatar.updateId = 2
  /\ \E i, j \in 1..Len(avatar.sprites) :
       /\ avatar.sprites[i].visible /\ ~avatar.sprites[i].ignore
       /\ ~avatar.sprites[j].visible /\ avatar.sprites[j].ignore

\* the tint C20 states for a part
DeclaredTint(part) ==
  IF part.mode = "colored" /\ IsSome(part.color)
  THEN ParseHex(Tail(Get(part.color)), 0)
  ELSE 16777215

\* C20: after a rebuild the tint of every visible node is the declared color
\* of the part it is shown for when that part is colored and 0xffffff
\* otherwise, for created and for reused nodes.
C20_TintFollowsThePart ==
  [][Rebuilt =>
       \A part \in ActiveParts, i \in 1..Len(avatar'.assets) :
         (/\ AssetAt(part, avatar'.currentFrame).fileId = avatar'.assets[i]
          /\ avatar'.sprites[i].visible) =>
           avatar'.sprites[i].tint = DeclaredTint(part)]_vars

(***************************************************************************)
(*                    Liveness of the avatar's looks                       *)
(***************************************************************************)

\* C21: with the clock ticking and every request succeeding, after the last
\* setter call the applied look eventually is, and stays, the look assigned
\* last, and the lookOptions getter returns it.
C21_LastAssignedLookIsApplied ==
  <>[](/\ IsSome(avatar.lookOptions)
       /\ LookEqual(Get(avatar.lookOptions), avatarOp.last)
       /\ LookEqual(Get(lookOptionsGetter(avatar)), avatarOp.last))

\* the texture callbacks of one kind that have not run yet
Pending(r, kind) == {i \in 1..Len(r.loading) : r.loading[i].kind = kind}

\* the texture assigned last, the texture applied and the active objects of a kind
AssignedTexture(r, kind) == IF kind = "wall" THEN r.wallTexture ELSE r.floorTexture

CurrentTexture(r, kind) ==
  IF kind = "wall" THEN r.currentWallTexture ELSE r.currentFloorTexture

ActiveOfKind(r, kind) == IF kind = "wall" THEN Range(r.walls) ELSE Range(r.floor)

\* C22: when the last outstanding texture of a kind has resolved, the room's
\* current texture of that kind and the texture of every active object of that
\* kind are the texture assigned last, in whatever order the textures resolved.
C22_LastAssignedTextureWins ==
  [][roomOp'.op = "textureLoaded" =>
       \A kind \in {"wall", "floor"} :
         (roomOp'.value = <<kind>> /\ Pending(room', kind) = {}) =>
           /\ CurrentTexture(room', kind) = AssignedTexture(room', kind)
           /\ \A id \in ActiveOfKind(room', kind) :
                room'.objects[id].texture = AssignedTexture(room', kind)]_vars

\* C23: once destroy() has been called, no clock tick and no arriving response
\* rebuilds the sprite graph, gives the avatar a new child group or issues a
\* new request.
C23_DestroyedAvatarStaysQuiet ==
  [][(avatarOp.destroyed /\ avatarOp'.op \in {"tick", "resolve"}) =>
       /\ avatar'.container = avatar.container
       /\ avatar'.sprites = avatar.sprites
       /\ avatar'.assets = avatar.assets
       /\ avatar'.updateId = avatar.updateId
       /\ avatar'.inflight \subseteq avatar.inflight]_vars

\* the object carries the color when the room has one assigned
CarriesColor(o, color) == IsSome(color) => o.color = color

\* C24: with no texture load outstanding, every active wall carries the
\* room's wall color and current wall texture and every active tile or stair
\* carries the room's floor color and current floor texture, whether the
\* object was created by a rebuild or styled in place. A color the room has
\* not been assigned is not compared.
C24_StyleIsTheSameOnBothPaths ==
  room.loading = <<>> =>
    /\ \A id \in Range(room.walls) :
         /\ CarriesColor(room.objects[id], room.wallColor)
         /\ room.objects[id].texture = room.currentWallTexture
    /\ \A id \in Range(room.floor) :
         /\ CarriesColor(room.objects[id], room.floorColor)
         /\ room.objects[id].texture = room.currentFloorTexture

====
